---- MODULE Spec2Model ----
(***************************************************************************)
(* A model of the Readwise Reader client (readwise/api.py): the list       *)
(* endpoint with pagination, the save / update / delete endpoints, the     *)
(* auth probe, HTTP status dispatch and the retry-on-429 path.  The server *)
(* is the environment: every response (status, Retry-After header, body)   *)
(* is chosen nondeterministically from small sets.                         *)
(***************************************************************************)
EXTENDS Integers, Sequences, FiniteSets, TLC

VARIABLES
    token,      \* ReadwiseReader._token ("None" when not given at construction)
    env,        \* the READWISE_TOKEN environment variable ("None" when unset)
    pc,         \* "idle" | "await" (a request is in flight) | "done";
                \* "created" | "yielded": an iter_documents generator waits for next()
    call,       \* the public method being run, with its arguments
    req,        \* the request in flight (rebuilt verbatim on a 429 retry)
    results,    \* get_documents' local accumulator `results`
    response,   \* iter_documents' local `response`: the page being yielded from
    pos,        \* how many documents of `response` have been yielded
    yielded,    \* history: the documents iter_documents has yielded, in order
    requests,   \* history: every HTTP request issued, in order
    responses,  \* history: every HTTP response received, in order
    sleeps,     \* history: every sleep(seconds) call, in order
    outcome,    \* what the public method returned or raised
    cli         \* the command-line run the call belongs to, and how the process ended

vars ==
    <<token, env, pc, call, req, results, response, pos, yielded, requests, responses, sleeps, outcome, cli>>

----------------------------------------------------------------------------
(* Bounds of the model *)

\* cursor tokens the server hands out: c1 .. cMaxCursor
MaxCursor == 2
\* most documents the server puts on one page
PageSize == 2
\* cap on the HTTP requests of one call (the code has no such cap)
MaxRequests == 3
\* largest Retry-After value (seconds) the server sends
MaxRetryAfter == 2
\* largest count the server reports for an id / url filtered list
MaxCount == 2

----------------------------------------------------------------------------
(* Python values *)

\* Python's None for a str | None value
None == "None"
\* Python's None for an int | None (or any other optional) value: <<>> is None, <<v>> is v
Nothing == <<>>
Some(v) == <<v>>

\* bool(v) of a str | None value: None and "" are falsy
Truthy(v) == v # None /\ v # ""

\* the decimal strings of the Retry-After header, DecimalStr[n + 1] = str(n)
DecimalStr == <<"0", "1", "2", "3", "4", "5">>
\* int(s) for a decimal string
ParseInt(s) == CHOOSE n \in 0..(Len(DecimalStr) - 1) : DecimalStr[n + 1] = s

\* the opaque cursor tokens of the server, CursorTok[k] names page k
CursorTok == <<"c1", "c2", "c3", "c4", "c5">>
Cursors == {CursorTok[k] : k \in 1..MaxCursor}
\* the page a request's pageCursor asks for (0: no cursor, the first page)
PageIndex(cursor) == IF cursor \in Cursors THEN CHOOSE k \in 1..MaxCursor : CursorTok[k] = cursor ELSE 0

\* document j of the page served for page index k
Doc(k, j) == [id |-> <<k, j>>]

Min(a, b) == IF a <= b THEN a ELSE b

RECURSIVE Concat(_)
\* the concatenation of a sequence of sequences
Concat(ss) == IF ss = <<>> THEN <<>> ELSE Head(ss) \o Concat(Tail(ss))

----------------------------------------------------------------------------
(* The wire: requests, response bodies, responses *)

\* the query parameters of a list request; a key the code does not set is None / Nothing / FALSE
NoParams ==
    [location |-> None, category |-> None, tag |-> None, limit |-> Nothing,
     pageCursor |-> None, id |-> Nothing, url |-> None]

\* a response body is text that is not JSON, a JSON array, or a JSON object;
\* an object has the fields of a list page, of a save result or of a delete
\* result, or none of them ("other")
TextBody ==
    [kind |-> "text", shape |-> "none", count |-> 0, nextPageCursor |-> None, results |-> <<>>,
     id |-> Nothing, url |-> None, success |-> FALSE]
ArrayBody == [TextBody EXCEPT !.kind = "array"]
OtherObject == [TextBody EXCEPT !.kind = "object", !.shape = "other"]
\* the JSON object of a list page: {"count": .., "nextPageCursor": .., "results": [..]}
PageBody(count, cursor, docs) ==
    [TextBody EXCEPT !.kind = "object", !.shape = "list", !.count = count,
                     !.nextPageCursor = cursor, !.results = docs]
\* the JSON object of a save result: {"id": .., "url": ..}
PostBody(id, url) == [TextBody EXCEPT !.kind = "object", !.shape = "post", !.id = Some(id), !.url = url]
\* the JSON object of a delete result: {"success": ..}
DeleteBody(success) == [TextBody EXCEPT !.kind = "object", !.shape = "delete", !.success = success]
MalformedBodies == {TextBody, ArrayBody, OtherObject}

\* the documents of the page served for page index k, n of them
PageDocs(k, n) == [j \in 1..n |-> Doc(k, j)]

\* the cursor the server hands out with page k: the token of page k + 1
NextCursor(k) == IF k < MaxCursor THEN {CursorTok[k + 1]} ELSE {}

\* The list pages the server may answer a list request with.  It honours the
\* request's pageCursor (the documents are those of the page asked for) and its
\* limit (never more documents than asked for); a page's cursor is absent, empty
\* or the token of the following page.  For a paginated listing the count
\* is the number of documents returned; for an id / url filter the count and the
\* results vary independently, anomalous answers included.
ServerPages(params) ==
    LET k == PageIndex(params.pageCursor)
        most == IF params.limit = Nothing THEN PageSize ELSE Min(PageSize, params.limit[1])
    IN  IF params.id # Nothing \/ params.url # None
        THEN {PageBody(c, None, PageDocs(k, n)) : c \in 0..MaxCount, n \in 0..most}
        ELSE {PageBody(n, cur, PageDocs(k, n)) : n \in 0..most, cur \in {None, ""} \cup NextCursor(k)}

\* a page of one document and no cursor
FinalPage(params) == PageBody(1, None, PageDocs(PageIndex(params.pageCursor), 1))

\* the Retry-After header of a 429: absent, empty, or a number of seconds
RetryAfterHeaders == {None, ""} \cup {DecimalStr[n + 1] : n \in 0..MaxRetryAfter}

Response(status, header, body) == [status_code |-> status, retry_after |-> header, text |-> body]

\* statuses of the list endpoint that are not 200 and not 429, boundaries included
OtherListStatuses == {199, 299, 300, 400, 401, 403, 404, 499, 500, 503}

\* every answer the server may give to a list request
ListResponses(params) ==
    {Response(200, None, b) : b \in ServerPages(params) \cup MalformedBodies}
    \cup {Response(s, None, b) : s \in OtherListStatuses, b \in {TextBody, FinalPage(params)}}
    \cup {Response(429, h, TextBody) : h \in RetryAfterHeaders}

----------------------------------------------------------------------------
(* What a method or a request helper does with a response *)

NoPage == [count |-> 0, next_page_cursor |-> None, results |-> <<>>]

\* a step's result: return a value, raise an exception, or (on a retried 429)
\* sleep and issue the same request again
Result(kind, exc, status, body, retry_after, seconds, page, ok, value) ==
    [kind |-> kind, exc |-> exc, status_code |-> status, response_body |-> body,
     retry_after |-> retry_after, seconds |-> seconds, page |-> page, ok |-> ok, value |-> value]
\* _make_get_request returns the decoded page
Return(page) == Result("return", "none", Nothing, TextBody, Nothing, 0, page, TRUE, <<>>)
\* a save / update / delete helper returns the pair (ok, value), value <<>> for None
ReturnPair(ok, value) == Result("return", "none", Nothing, TextBody, Nothing, 0, NoPage, ok, value)
\* an exception that is not a ReadwiseError: it carries no status and no body
RaiseBare(exc) == Result("raise", exc, Nothing, TextBody, Nothing, 0, NoPage, FALSE, <<>>)
\* ReadwiseError(message, status_code = resp.status_code, response_body = resp.text)
RaiseHttp(exc, resp) ==
    Result("raise", exc, Some(resp.status_code), resp.text, Nothing, 0, NoPage, FALSE, <<>>)
RaiseRateLimit(resp, retry_after_seconds) ==
    Result("raise", "ReadwiseRateLimitError", Some(resp.status_code), resp.text,
           retry_after_seconds, 0, NoPage, FALSE, <<>>)
Retry(seconds) == Result("retry", "none", Nothing, TextBody, Nothing, seconds, NoPage, FALSE, <<>>)

\* retry_after_seconds = int(retry_after) if retry_after else None
RetryAfterSeconds(header) == IF Truthy(header) THEN Some(ParseInt(header)) ELSE Nothing

\* ShouldRetry paying no attention to retry_on_429
ShouldRetryIgnoresFlag(retry_on_429, retry_after_seconds) ==
    retry_after_seconds # Nothing /\ retry_after_seconds[1] # 0

\* ShouldRetry testing `retry_after_seconds is not None`: a wait of 0 retries
ShouldRetryOnZero(retry_on_429, retry_after_seconds) ==
    retry_on_429 /\ retry_after_seconds # Nothing

\* `retry_on_429 and retry_after_seconds`: None and 0 are falsy
ShouldRetry(retry_on_429, retry_after_seconds) ==
    retry_on_429 /\ retry_after_seconds # Nothing /\ retry_after_seconds[1] # 0

\* GetResponse(**http_response.json()): json() raises on text that is not JSON,
\* ** raises TypeError on a JSON value that is not an object, and the record
\* rejects an object without its fields; nextPageCursor is read into next_page_cursor
DecodeGetResponse(body) ==
    IF body.kind = "text" THEN RaiseBare("JSONDecodeError")
    ELSE IF body.kind # "object" THEN RaiseBare("TypeError")
    ELSE IF body.shape # "list" THEN RaiseBare("ValidationError")
    ELSE Return([count |-> body.count, next_page_cursor |-> body.nextPageCursor, results |-> body.results])

\* GetDispatch with the server range starting above 500
GetDispatchAbove500(resp) ==
    IF resp.status_code > 500 THEN RaiseHttp("ReadwiseServerError", resp)
    ELSE IF resp.status_code >= 400
         THEN IF resp.status_code \in {401, 403}
              THEN RaiseHttp("ReadwiseAuthenticationError", resp)
              ELSE RaiseHttp("ReadwiseClientError", resp)
    ELSE IF resp.status_code >= 200 THEN DecodeGetResponse(resp.text)
    ELSE RaiseHttp("ReadwiseError", resp)

\* _make_get_request after the response has arrived: status dispatch
GetDispatch(resp) ==
    IF resp.status_code >= 500 THEN RaiseHttp("ReadwiseServerError", resp)
    ELSE IF resp.status_code >= 400
         THEN IF resp.status_code \in {401, 403}
              THEN RaiseHttp("ReadwiseAuthenticationError", resp)
              ELSE RaiseHttp("ReadwiseClientError", resp)
    ELSE IF resp.status_code >= 200 THEN DecodeGetResponse(resp.text)
    ELSE RaiseHttp("ReadwiseError", resp)

\* MakeGetRequest taking a 429 it does not retry for an empty last page
MakeGetRequestEmptyOn429(resp, retry_on_429) ==
    IF resp.status_code = 429
    THEN LET retry_after_seconds == RetryAfterSeconds(resp.retry_after)
         IN  IF ShouldRetry(retry_on_429, retry_after_seconds)
             THEN Retry(retry_after_seconds[1])
             ELSE Return(NoPage)
    ELSE GetDispatch(resp)

\* _make_get_request after the response has arrived
MakeGetRequest(resp, retry_on_429) ==
    IF resp.status_code = 429
    THEN LET retry_after_seconds == RetryAfterSeconds(resp.retry_after)
         IN  IF ShouldRetry(retry_on_429, retry_after_seconds)
             THEN Retry(retry_after_seconds[1])
             ELSE RaiseRateLimit(resp, retry_after_seconds)
    ELSE GetDispatch(resp)

----------------------------------------------------------------------------
(* State of a call *)

\* the timeout every request is made with
Timeout == 30
\* limit must lie in MinLimit..MaxLimit
MinLimit == 1
MaxLimit == 100

\* the JSON body of a save / update / delete request; a request without one carries NoJson
NoJson ==
    [id |-> Nothing, url |-> None, html |-> None, should_clean_html |-> Nothing, location |-> None,
     title |-> None, category |-> None, notes |-> None]

NoCall ==
    [op |-> "none", location |-> None, category |-> None, tag |-> None, limit |-> Nothing,
     page_cursor |-> None, retry_on_429 |-> FALSE, id |-> Nothing, url |-> None, html |-> None,
     should_clean_html |-> FALSE, document_id |-> Nothing, token |-> None,
     title |-> None, notes |-> None]

NoRequest ==
    [method |-> "none", path |-> "none", target |-> Nothing, params |-> NoParams, json |-> NoJson,
     retry_on_429 |-> FALSE, auth |-> None, timeout |-> 0]

Outcome(kind, exc, msg, status, body, retry_after, ok, value) ==
    [kind |-> kind, exc |-> exc, msg |-> msg, status_code |-> status, response_body |-> body,
     retry_after |-> retry_after, ok |-> ok, value |-> value]
Pending == Outcome("pending", "none", <<>>, Nothing, TextBody, Nothing, FALSE, <<>>)
\* the method returned a plain value (a list of documents, or <<>> for None / <<d>> for a document)
Returned(value) == Outcome("return", "none", <<>>, Nothing, TextBody, Nothing, TRUE, value)
\* the method returned the pair (ok, value); msg holds the text of an
\* {"error": ...} value and what it names
ReturnedPair(ok, msg, value) == Outcome("return", "none", msg, Nothing, TextBody, Nothing, ok, value)
\* the method raised ValueError (or another bare exception) about `what`
Raised(exc, what) == Outcome("raise", exc, <<what>>, Nothing, TextBody, Nothing, FALSE, <<>>)
\* the method let the exception of a request helper propagate
Propagated(r) == Outcome("raise", r.exc, <<>>, r.status_code, r.response_body, r.retry_after, FALSE, <<>>)

\* ReadwiseReader.token: the constructor's token, else the environment's
TokenError ==
    IF token = None /\ env = None THEN "ValueError"
    ELSE IF ~Truthy(token) /\ env = None THEN "KeyError"
    ELSE "none"
\* ResolvedToken preferring the environment's token
ResolvedTokenEnvFirst == IF env # None THEN env ELSE token

ResolvedToken == IF Truthy(token) THEN token ELSE env

\* the list request requests.get(url = URL_BASE/list/, headers, params, timeout = 30)
ListRequest(params, retry_on_429) ==
    [NoRequest EXCEPT !.method = "GET", !.path = "/list/", !.params = params,
                      !.retry_on_429 = retry_on_429, !.timeout = Timeout]

\* requests.post(url = URL_BASE/save/, headers, json = payload.model_dump(), timeout = 30)
SaveRequest(json, retry_on_429) ==
    [NoRequest EXCEPT !.method = "POST", !.path = "/save/", !.json = json,
                      !.retry_on_429 = retry_on_429, !.timeout = Timeout]

\* requests.patch(url = URL_BASE/update/{id}/, headers, json = {location}, timeout = 30)
UpdateRequest(id, location, retry_on_429) ==
    [NoRequest EXCEPT !.method = "PATCH", !.path = "/update/", !.target = Some(id),
                      !.json = [NoJson EXCEPT !.location = location],
                      !.retry_on_429 = retry_on_429, !.timeout = Timeout]

\* requests.delete(url = URL_BASE/delete/{id}/, headers, json = {id}, timeout = 30)
DeleteRequest(id, retry_on_429) ==
    [NoRequest EXCEPT !.method = "DELETE", !.path = "/delete/", !.target = Some(id),
                      !.json = [NoJson EXCEPT !.id = Some(id)],
                      !.retry_on_429 = retry_on_429, !.timeout = Timeout]

\* requests.get(url = https://readwise.io/api/v2/auth/, headers, timeout = 30)
AuthRequest == [NoRequest EXCEPT !.method = "GET", !.path = "/api/v2/auth/", !.timeout = Timeout]

\* no command-line run: the client is used as a library
NoCli == [cmd |-> "none", exit |-> Nothing, diagnostic |-> FALSE, unhandled |-> FALSE]
\* a run of command `cmd` that has not ended
Running(cmd) == [NoCli EXCEPT !.cmd = cmd]
\* the process ended with status `code`; diagnostic: it printed a one-line
\* message about a failure; unhandled: an exception left the command (a traceback)
Exited(c, code, diagnostic, unhandled) ==
    [c EXCEPT !.exit = Some(code), !.diagnostic = diagnostic, !.unhandled = unhandled]
\* the exceptions of the model that `except ValueError` catches
ValueErrors == {"ValueError", "ValidationError", "JSONDecodeError"}

\* The command of run c goes on after its client call ended with o.
\* list and get have no try: an exception leaves the command, a return prints
\* the result.  save catches ValueError and exits 1, and prints "Failed to save
\* document" for a (False, ...) pair without calling sys.exit.  auth-check
\* exits 0 for True and 1 for False and for every exception.
CliEnd(c, o) ==
    IF c.cmd = "none" THEN c
    ELSE IF c.cmd \in {"list", "get"}
    THEN IF o.kind = "raise" THEN Exited(c, 1, FALSE, TRUE) ELSE Exited(c, 0, FALSE, FALSE)
    ELSE IF c.cmd = "save"
    THEN IF o.kind = "raise"
         THEN IF o.exc \in ValueErrors THEN Exited(c, 1, TRUE, FALSE) ELSE Exited(c, 1, FALSE, TRUE)
         ELSE IF o.ok /\ o.value # <<>> THEN Exited(c, 0, FALSE, FALSE) ELSE Exited(c, 0, TRUE, FALSE)
    ELSE IF o.kind = "raise" THEN Exited(c, 1, TRUE, FALSE)
         ELSE IF o.ok THEN Exited(c, 0, FALSE, FALSE) ELSE Exited(c, 1, TRUE, FALSE)

\* the method ends within run c: it returned or raised `o`
FinishAs(c, o) ==
    /\ pc' = "done"
    /\ outcome' = o
    /\ cli' = CliEnd(c, o)
    /\ UNCHANGED <<req, requests>>

\* A request helper is entered within run c: the Authorization header is built
\* with token `auth` (reading self.token raises when no token is configured)
\* and the request goes out.
SendAs(c, r, error, auth) ==
    IF error # "none"
    THEN FinishAs(c, Raised(error, "token"))
    ELSE LET sent == [r EXCEPT !.auth = auth]
         IN  /\ pc' = "await"
             /\ req' = sent
             /\ requests' = Append(requests, sent)
             /\ cli' = c
             /\ UNCHANGED outcome

\* a request helper is entered
Send(r) == SendAs(cli, r, TokenError, ResolvedToken)

\* the method ends: it returned or raised `o`
Finish(o) == FinishAs(cli, o)

Init ==
    /\ token \in {None, "ctor-token"}
    /\ env \in {None, "env-token"}
    /\ pc = "idle"
    /\ call = NoCall
    /\ req = NoRequest
    /\ results = <<>>
    /\ response = NoPage
    /\ pos = 0
    /\ yielded = <<>>
    /\ requests = <<>>
    /\ responses = <<>>
    /\ sleeps = <<>>
    /\ outcome = Pending
    /\ cli = NoCli

----------------------------------------------------------------------------
(* The list methods *)

ListLocations == {"new", "later", "shortlist", "archive", "feed"}
Categories == {"article", "email", "rss", "highlight", "note", "pdf", "epub", "tweet", "video"}

\* the arguments the model calls the list methods with
LocationInputs == {None, "", "new", "shortlist", "inbox"}
CategoryInputs == {None, "article", "book"}
TagInputs == {None, "t"}
CursorInputs == {None, "", CursorTok[1]}
\* the <<location, category, tag, page_cursor>> combinations tried: at most one
\* of them differs from its default
FilterInputs ==
    {f \in LocationInputs \X CategoryInputs \X TagInputs \X CursorInputs :
        Cardinality({i \in 1..4 : f[i] # None}) <= 1}
\* the document ids and urls the model passes in
IdInputs == {Doc(0, 1).id}
UrlInputs == {"https://a"}
LimitInputs == {Nothing, Some(-1), Some(0), Some(1), Some(2), Some(100), Some(101)}

\* FilterError without the check of category
FilterErrorNoCategory(a) ==
    IF Truthy(a.location) /\ a.location \notin ListLocations THEN "location"
    ELSE "none"

\* the filters get_documents and iter_documents copy into params, or the
\* parameter whose validation fails
FilterError(a) ==
    IF Truthy(a.location) /\ a.location \notin ListLocations THEN "location"
    ELSE IF Truthy(a.category) /\ a.category \notin Categories THEN "category"
    ELSE "none"
FilterParams(a) ==
    [NoParams EXCEPT !.location = IF Truthy(a.location) THEN a.location ELSE None,
                     !.category = IF Truthy(a.category) THEN a.category ELSE None,
                     !.tag = IF Truthy(a.tag) THEN a.tag ELSE None]

\* LimitValid without the lower end of the range
LimitValidNoLowerEnd(limit) == limit <= MaxLimit

LimitValid(limit) == MinLimit <= limit /\ limit <= MaxLimit

\* GetDocumentsParams leaving the limit out of the request
GetDocumentsParamsNoLimit(a) ==
    [FilterParams(a) EXCEPT !.pageCursor = IF Truthy(a.page_cursor) THEN a.page_cursor ELSE None]

\* the params of get_documents' first request
GetDocumentsParams(a) ==
    [FilterParams(a) EXCEPT !.limit = a.limit,
                            !.pageCursor = IF Truthy(a.page_cursor) THEN a.page_cursor ELSE None]

\* get_documents(a), called within run c, up to its first request
GetDocumentsCall(c, a) ==
    /\ call' = a
    /\ IF FilterError(a) # "none" THEN FinishAs(c, Raised("ValueError", FilterError(a)))
       ELSE IF a.limit # Nothing /\ ~LimitValid(a.limit[1]) THEN FinishAs(c, Raised("ValueError", "limit"))
       ELSE SendAs(c, ListRequest(GetDocumentsParams(a), a.retry_on_429), TokenError, ResolvedToken)

\* get_documents up to its first request
GetDocuments ==
    /\ pc = "idle"
    /\ \E f \in FilterInputs, n \in LimitInputs, r \in BOOLEAN :
        GetDocumentsCall(cli, [NoCall EXCEPT !.op = "get_documents", !.location = f[1], !.category = f[2],
                                            !.tag = f[3], !.limit = n, !.page_cursor = f[4],
                                            !.retry_on_429 = r])
    /\ UNCHANGED <<token, env, results, response, pos, yielded, responses, sleeps>>

\* get_document_by_id(i, r), called within run c, up to its request
GetDocumentByIdCall(c, i, r) ==
    /\ call' = [NoCall EXCEPT !.op = "get_document_by_id", !.id = Some(i), !.retry_on_429 = r]
    /\ SendAs(c, ListRequest([NoParams EXCEPT !.id = Some(i)], r), TokenError, ResolvedToken)

\* get_document_by_id up to its request
GetDocumentById ==
    /\ pc = "idle"
    /\ \E i \in IdInputs, r \in BOOLEAN : GetDocumentByIdCall(cli, i, r)
    /\ UNCHANGED <<token, env, results, response, pos, yielded, responses, sleeps>>

\* search_document up to its request
SearchDocument ==
    /\ pc = "idle"
    /\ \E u \in UrlInputs, r \in BOOLEAN :
        /\ call' = [NoCall EXCEPT !.op = "search_document", !.url = u, !.retry_on_429 = r]
        /\ Send(ListRequest([NoParams EXCEPT !.url = u], r))
    /\ UNCHANGED <<token, env, results, response, pos, yielded, responses, sleeps>>

\* PaginateStep forgetting the last response, whose next_page_cursor is None
PaginateStepDropsLast(acc, page) ==
    [more |-> Truthy(page.next_page_cursor),
     results |-> IF Truthy(page.next_page_cursor) THEN acc \o page.results ELSE acc,
     cursor |-> page.next_page_cursor]

\* PaginateStep ending the loop when the server hands back the cursor just asked for
PaginateStepStopsOnRepeat(acc, page) ==
    [more |-> Truthy(page.next_page_cursor) /\ page.next_page_cursor # req.params.pageCursor,
     results |-> acc \o page.results,
     cursor |-> page.next_page_cursor]

\* one turn of get_documents' pagination loop: the page's results are appended,
\* and the loop goes on while the page carries a (truthy) next_page_cursor
PaginateStep(acc, page) ==
    [more |-> Truthy(page.next_page_cursor),
     results |-> acc \o page.results,
     cursor |-> page.next_page_cursor]

\* DocumentById taking any count of at least 1
DocumentByIdAtLeastOne(page) ==
    IF page.count >= 1
    THEN IF page.results = <<>> THEN Raised("IndexError", "results") ELSE Returned(<<page.results[1]>>)
    ELSE Returned(<<>>)

\* get_document_by_id after its page has arrived; results[0] raises IndexError on an empty list
DocumentById(page) ==
    IF page.count = 1
    THEN IF page.results = <<>> THEN Raised("IndexError", "results") ELSE Returned(<<page.results[1]>>)
    ELSE Returned(<<>>)

\* SearchResult finding a document only for a count of exactly 1
SearchResultCountOne(page, url) ==
    IF page.count = 1
    THEN IF page.results = <<>> THEN Raised("IndexError", "results")
         ELSE ReturnedPair(TRUE, <<>>, <<page.results[1]>>)
    ELSE ReturnedPair(FALSE, <<"No document found with URL", url>>, <<>>)

\* SearchResult taking the last result of the page
SearchResultLast(page, url) ==
    IF page.count > 0
    THEN IF page.results = <<>> THEN Raised("IndexError", "results")
         ELSE ReturnedPair(TRUE, <<>>, <<page.results[Len(page.results)]>>)
    ELSE ReturnedPair(FALSE, <<"No document found with URL", url>>, <<>>)

\* search_document after its page has arrived
SearchResult(page, url) ==
    IF page.count > 0
    THEN IF page.results = <<>> THEN Raised("IndexError", "results")
         ELSE ReturnedPair(TRUE, <<>>, <<page.results[1]>>)
    ELSE ReturnedPair(FALSE, <<"No document found with URL", url>>, <<>>)

\* NextPageRequest built from the cursor alone, the filters dropped
NextPageRequestFiltersLost(p) ==
    ListRequest([NoParams EXCEPT !.pageCursor = p.next_page_cursor], req.retry_on_429)

\* the request for the page after `p`: the same params with pageCursor set to p's cursor
NextPageRequest(p) ==
    ListRequest([req.params EXCEPT !.pageCursor = p.next_page_cursor], req.retry_on_429)

\* IterAdvance ending the generator whatever the page's cursor
IterAdvanceNoNextPage(p) == Finish(Returned(yielded))

\* iter_documents once every document of page p has been yielded: the generator
\* ends when p carries no (truthy) cursor, else it requests the next page
IterAdvance(p) ==
    IF ~Truthy(p.next_page_cursor)
    THEN Finish(Returned(yielded))
    ELSE /\ Len(requests) < MaxRequests
         /\ Send(NextPageRequest(p))

\* delete_document after its search_document(url = url) has returned `found`
DeleteAfterSearch(found) ==
    IF found.kind = "raise" THEN Finish(found)
    ELSE IF ~found.ok
    THEN Finish(ReturnedPair(FALSE, <<"Could not find document with URL", call.url>>, <<>>))
    ELSE /\ Len(requests) < MaxRequests
         /\ Send(DeleteRequest(found.value[1].id, call.retry_on_429))

\* the caller of _make_get_request goes on with the decoded page
ListContinue(p) ==
    IF call.op = "get_documents"
    THEN /\ UNCHANGED <<response, pos, yielded>>
         /\ IF call.limit # Nothing
            THEN Finish(Returned(p.results)) /\ UNCHANGED results
            ELSE LET step == PaginateStep(results, p)
                 IN  /\ results' = step.results
                     /\ IF step.more
                        THEN /\ Len(requests) < MaxRequests
                             /\ Send(NextPageRequest(p))
                        ELSE Finish(Returned(step.results))
    ELSE IF call.op = "iter_documents"
    THEN /\ UNCHANGED results
         /\ response' = p
         /\ IF p.results # <<>>
            THEN /\ pos' = 1
                 /\ yielded' = Append(yielded, p.results[1])
                 /\ pc' = "yielded"
                 /\ UNCHANGED <<req, requests, outcome, cli>>
            ELSE /\ IterAdvance(p)
                 /\ UNCHANGED <<pos, yielded>>
    ELSE IF call.op = "get_document_by_id"
    THEN Finish(DocumentById(p)) /\ UNCHANGED <<results, response, pos, yielded>>
    ELSE IF call.op = "delete_document"
    THEN DeleteAfterSearch(SearchResult(p, call.url)) /\ UNCHANGED <<results, response, pos, yielded>>
    ELSE Finish(SearchResult(p, call.url)) /\ UNCHANGED <<results, response, pos, yielded>>

\* The answer to a list request arrives and _make_get_request, then its caller, run on.
ListResponse ==
    /\ pc = "await"
    /\ req.path = "/list/"
    /\ \E resp \in ListResponses(req.params) :
        LET r == MakeGetRequest(resp, req.retry_on_429)
        IN  /\ responses' = Append(responses, resp)
            /\ IF r.kind = "retry"
               THEN /\ Len(requests) < MaxRequests
                    /\ sleeps' = Append(sleeps, r.seconds)
                    /\ Send(req)
                    /\ UNCHANGED <<results, response, pos, yielded>>
               ELSE /\ UNCHANGED sleeps
                    /\ IF r.kind = "raise"
                       THEN Finish(Propagated(r)) /\ UNCHANGED <<results, response, pos, yielded>>
                       ELSE ListContinue(r.page)
    /\ UNCHANGED <<token, env, call>>

\* iter_documents(...) is called: a generator is created, none of its code has run
IterDocuments ==
    /\ pc = "idle"
    /\ \E f \in {g \in FilterInputs : g[4] = None}, r \in BOOLEAN :
        call' = [NoCall EXCEPT !.op = "iter_documents", !.location = f[1], !.category = f[2],
                               !.tag = f[3], !.retry_on_429 = r]
    /\ pc' = "created"
    /\ UNCHANGED <<token, env, req, results, response, pos, yielded, requests, responses, sleeps, outcome, cli>>

\* The consumer asks the generator for the next document: the first time the
\* generator validates and requests the first page; later it yields the next
\* document of the current page, or moves past an exhausted page.
IterNext ==
    /\ pc \in {"created", "yielded"}
    /\ IF pc = "created"
       THEN /\ IF FilterError(call) # "none"
               THEN Finish(Raised("ValueError", FilterError(call)))
               ELSE Send(ListRequest(FilterParams(call), call.retry_on_429))
            /\ UNCHANGED <<pos, yielded>>
       ELSE IF pos < Len(response.results)
       THEN /\ pos' = pos + 1
            /\ yielded' = Append(yielded, response.results[pos + 1])
            /\ UNCHANGED <<pc, req, requests, outcome, cli>>
       ELSE /\ IterAdvance(response)
            /\ UNCHANGED <<pos, yielded>>
    /\ UNCHANGED <<token, env, call, results, response, responses, sleeps>>

\* the consumer stops iterating and drops the generator
IterClose ==
    /\ pc \in {"created", "yielded"}
    /\ Finish(Outcome("closed", "none", <<>>, Nothing, TextBody, Nothing, FALSE, yielded))
    /\ UNCHANGED <<token, env, call, results, response, pos, yielded, responses, sleeps>>

----------------------------------------------------------------------------
(* save_document *)

\* SaveLocations with shortlist, the locations of get_documents
SaveLocationsWithShortlist == {"new", "later", "shortlist", "archive", "feed"}

SaveLocations == {"new", "later", "archive", "feed"}

HtmlInputs == {None, "", "<p>"}
\* the <<location, category, title, notes>> combinations tried with save_document:
\* at most one of them is supplied
SaveLocationInputs == LocationInputs \cup {"later", "archive", "feed"}
SaveFilterInputs ==
    {f \in SaveLocationInputs \X CategoryInputs \X {None, "T"} \X {None, "n"} :
        Cardinality({i \in 1..4 : f[i] # None}) <= 1}

\* SaveError asking for exactly one of url and html
SaveErrorExactlyOne(a) ==
    IF Truthy(a.url) <=> Truthy(a.html) THEN "url or html"
    ELSE IF a.should_clean_html /\ ~Truthy(a.html) THEN "should_clean_html"
    ELSE IF Truthy(a.location) /\ a.location \notin SaveLocations THEN "location"
    ELSE IF Truthy(a.category) /\ a.category \notin Categories THEN "category"
    ELSE "none"

\* SaveError without the check of should_clean_html
SaveErrorNoCleanCheck(a) ==
    IF ~Truthy(a.url) /\ ~Truthy(a.html) THEN "url or html"
    ELSE IF Truthy(a.location) /\ a.location \notin SaveLocations THEN "location"
    ELSE IF Truthy(a.category) /\ a.category \notin Categories THEN "category"
    ELSE "none"

\* save_document's checks of its arguments: the argument rejected, or "none"
SaveError(a) ==
    IF ~Truthy(a.url) /\ ~Truthy(a.html) THEN "url or html"
    ELSE IF a.should_clean_html /\ ~Truthy(a.html) THEN "should_clean_html"
    ELSE IF Truthy(a.location) /\ a.location \notin SaveLocations THEN "location"
    ELSE IF Truthy(a.category) /\ a.category \notin Categories THEN "category"
    ELSE "none"

\* PostRequest(url = url, html = html, should_clean_html = ..., location = location, ...)
\* dumped to JSON.  title stands for the fields the record declares and copies
\* (title, author, summary, published_date, image_url, saved_using, tags); the
\* record declares no category and no notes field, so those two arguments are
\* ignored by it and the dump has no such key
SavePayload(a) ==
    [NoJson EXCEPT !.url = a.url, !.html = a.html,
                   !.should_clean_html = IF a.html # None THEN Some(a.should_clean_html) ELSE Nothing,
                   !.location = a.location, !.title = a.title]

\* save_document(a), called within run c, up to its request; PostRequest.url is
\* a str, and the record rejects None with a ValidationError
SaveDocumentCall(c, a) ==
    /\ call' = a
    /\ IF SaveError(a) # "none" THEN FinishAs(c, Raised("ValueError", SaveError(a)))
       ELSE IF a.url = None THEN FinishAs(c, Raised("ValidationError", "url"))
       ELSE SendAs(c, SaveRequest(SavePayload(a), a.retry_on_429), TokenError, ResolvedToken)

\* save_document up to its request
SaveDocument ==
    /\ pc = "idle"
    /\ \E u \in {None, ""} \cup UrlInputs, h \in HtmlInputs, clean \in BOOLEAN,
          f \in SaveFilterInputs, r \in BOOLEAN :
        SaveDocumentCall(cli, [NoCall EXCEPT !.op = "save_document", !.url = u, !.html = h,
                                             !.should_clean_html = clean, !.location = f[1],
                                             !.category = f[2], !.title = f[3], !.notes = f[4],
                                             !.retry_on_429 = r])
    /\ UNCHANGED <<token, env, results, response, pos, yielded, responses, sleeps>>

\* PostResponse(**http_response.json()) inside `try ... except ValueError`:
\* json()'s error and the record's ValidationError are ValueErrors and give
\* (False, None); the TypeError of ** on a JSON value that is no object is not caught
DecodePostResponse(body) ==
    IF body.kind = "text" THEN ReturnPair(FALSE, <<>>)
    ELSE IF body.kind # "object" THEN RaiseBare("TypeError")
    ELSE IF body.shape # "post" THEN ReturnPair(FALSE, <<>>)
    ELSE ReturnPair(TRUE, <<[id |-> body.id[1], url |-> body.url]>>)

\* MakePostRequest raising the typed HTTP errors of the list endpoint
MakePostRequestRaising(resp, retry_on_429) ==
    IF resp.status_code = 429
    THEN LET retry_after_seconds == RetryAfterSeconds(resp.retry_after)
         IN  IF ShouldRetry(retry_on_429, retry_after_seconds)
             THEN Retry(retry_after_seconds[1])
             ELSE RaiseRateLimit(resp, retry_after_seconds)
    ELSE IF resp.status_code \in {200, 201} THEN DecodePostResponse(resp.text)
    ELSE IF resp.status_code >= 400 THEN GetDispatch(resp)
    ELSE ReturnPair(FALSE, <<>>)

\* _make_post_request after the response has arrived
MakePostRequest(resp, retry_on_429) ==
    IF resp.status_code = 429
    THEN LET retry_after_seconds == RetryAfterSeconds(resp.retry_after)
         IN  IF ShouldRetry(retry_on_429, retry_after_seconds)
             THEN Retry(retry_after_seconds[1])
             ELSE RaiseRateLimit(resp, retry_after_seconds)
    ELSE IF resp.status_code \in {200, 201} THEN DecodePostResponse(resp.text)
    ELSE ReturnPair(FALSE, <<>>)

\* statuses of the save / update / delete endpoints that are not 200, 201, 204 or 429
OtherStatuses == {199, 202, 300, 400, 401, 403, 404, 500, 503}

SavedBody == PostBody(Doc(0, 1).id, "https://read/1")

\* every answer the server may give to a save request
SaveResponses ==
    {Response(st, None, b) : st \in {200, 201}, b \in {SavedBody} \cup MalformedBodies}
    \cup {Response(st, None, b) : st \in OtherStatuses \cup {204}, b \in {TextBody, SavedBody}}
    \cup {Response(429, h, TextBody) : h \in RetryAfterHeaders}

\* A request helper acts on its result r: a retried 429 sleeps and issues the same
\* request again, anything else ends the method with what the helper returned or raised.
PairContinue(r) ==
    IF r.kind = "retry"
    THEN /\ Len(requests) < MaxRequests
         /\ sleeps' = Append(sleeps, r.seconds)
         /\ Send(req)
    ELSE /\ UNCHANGED sleeps
         /\ IF r.kind = "raise"
            THEN Finish(Propagated(r))
            ELSE Finish(ReturnedPair(r.ok, <<>>, r.value))

\* The answer to a save request arrives and _make_post_request runs on.
SaveResponse ==
    /\ pc = "await"
    /\ req.path = "/save/"
    /\ \E resp \in SaveResponses :
        /\ responses' = Append(responses, resp)
        /\ PairContinue(MakePostRequest(resp, req.retry_on_429))
    /\ UNCHANGED <<token, env, call, results, response, pos, yielded>>

----------------------------------------------------------------------------
(* update_document_location *)

\* UpdateLocations with feed as well
UpdateLocationsWithFeed == {"new", "later", "archive", "feed"}

UpdateLocations == {"new", "later", "archive"}

\* UpdateResponse(success, message); `status` is the status a failure message names
UpdateResult(success, message, status) == [success |-> success, message |-> message, status |-> status]

\* update_document_location up to its request
UpdateDocumentLocation ==
    /\ pc = "idle"
    /\ \E i \in IdInputs, l \in {"", "new", "later", "archive", "shortlist", "feed", "inbox"},
          r \in BOOLEAN :
        /\ call' = [NoCall EXCEPT !.op = "update_document_location", !.document_id = Some(i),
                                  !.location = l, !.retry_on_429 = r]
        /\ IF l \notin UpdateLocations
           THEN Finish(ReturnedPair(FALSE, <<"Invalid location", l>>, <<>>))
           ELSE Send(UpdateRequest(i, l, r))
    /\ UNCHANGED <<token, env, results, response, pos, yielded, responses, sleeps>>

\* _make_update_request after the response has arrived
MakeUpdateRequest(resp, retry_on_429) ==
    IF resp.status_code = 429
    THEN LET retry_after_seconds == RetryAfterSeconds(resp.retry_after)
         IN  IF ShouldRetry(retry_on_429, retry_after_seconds)
             THEN Retry(retry_after_seconds[1])
             ELSE RaiseRateLimit(resp, retry_after_seconds)
    ELSE IF resp.status_code = 200
    THEN ReturnPair(TRUE, <<UpdateResult(TRUE, "Document updated successfully", Nothing)>>)
    ELSE ReturnPair(FALSE, <<UpdateResult(FALSE, "Update failed", Some(resp.status_code))>>)

\* every answer the server may give to an update request
UpdateResponses ==
    {Response(st, None, TextBody) : st \in OtherStatuses \cup {200, 201, 204}}
    \cup {Response(429, h, TextBody) : h \in RetryAfterHeaders}

\* The answer to an update request arrives and _make_update_request runs on.
UpdateResponse ==
    /\ pc = "await"
    /\ req.path = "/update/"
    /\ \E resp \in UpdateResponses :
        /\ responses' = Append(responses, resp)
        /\ PairContinue(MakeUpdateRequest(resp, req.retry_on_429))
    /\ UNCHANGED <<token, env, call, results, response, pos, yielded>>

----------------------------------------------------------------------------
(* delete_document *)

\* DeleteResponse(success, message)
DeleteResult(success, message) == [success |-> success, message |-> message]

\* delete_document up to its first request: the DELETE itself when an id is given,
\* else search_document(url = url), which is called without retry_on_429
DeleteDocument ==
    /\ pc = "idle"
    /\ \E u \in {None} \cup UrlInputs, i \in {Nothing} \cup {Some(d) : d \in IdInputs}, r \in BOOLEAN :
        /\ call' = [NoCall EXCEPT !.op = "delete_document", !.url = u, !.document_id = i,
                                  !.retry_on_429 = r]
        /\ IF i = Nothing /\ u = None
           THEN Finish(ReturnedPair(FALSE, <<"Either url or document_id must be provided">>, <<>>))
           ELSE IF i = Nothing
           THEN Send(ListRequest([NoParams EXCEPT !.url = u], FALSE))
           ELSE Send(DeleteRequest(i[1], r))
    /\ UNCHANGED <<token, env, results, response, pos, yielded, responses, sleeps>>

\* DeleteResponse(**http_response.json()) inside `try ... except ValueError`
DecodeDeleteResponse(body) ==
    IF body.kind = "text" THEN ReturnPair(FALSE, <<>>)
    ELSE IF body.kind # "object" THEN RaiseBare("TypeError")
    ELSE IF body.shape # "delete" THEN ReturnPair(FALSE, <<>>)
    ELSE ReturnPair(TRUE, <<DeleteResult(body.success, "")>>)

\* _make_delete_request after the response has arrived
MakeDeleteRequest(resp, retry_on_429) ==
    IF resp.status_code = 429
    THEN LET retry_after_seconds == RetryAfterSeconds(resp.retry_after)
         IN  IF ShouldRetry(retry_on_429, retry_after_seconds)
             THEN Retry(retry_after_seconds[1])
             ELSE RaiseRateLimit(resp, retry_after_seconds)
    ELSE IF resp.status_code = 204
    THEN ReturnPair(TRUE, <<DeleteResult(TRUE, "Document deleted successfully")>>)
    ELSE IF resp.status_code = 200 THEN DecodeDeleteResponse(resp.text)
    ELSE ReturnPair(FALSE, <<>>)

\* every answer the server may give to a delete request
DeleteResponses ==
    {Response(200, None, b) : b \in {DeleteBody(TRUE), DeleteBody(FALSE)} \cup MalformedBodies}
    \cup {Response(st, None, b) : st \in OtherStatuses \cup {201, 204}, b \in {TextBody, DeleteBody(TRUE)}}
    \cup {Response(429, h, TextBody) : h \in RetryAfterHeaders}

\* The answer to a delete request arrives and _make_delete_request runs on.
DeleteResponse ==
    /\ pc = "await"
    /\ req.path = "/delete/"
    /\ \E resp \in DeleteResponses :
        /\ responses' = Append(responses, resp)
        /\ PairContinue(MakeDeleteRequest(resp, req.retry_on_429))
    /\ UNCHANGED <<token, env, call, results, response, pos, yielded>>

----------------------------------------------------------------------------
(* validate_token *)

\* validate_token(t), called within run c, up to its request:
\* auth_token = token or self.token
ValidateTokenCall(c, t) ==
    /\ call' = [NoCall EXCEPT !.op = "validate_token", !.token = t]
    /\ SendAs(c, AuthRequest, IF Truthy(t) THEN "none" ELSE TokenError,
              IF Truthy(t) THEN t ELSE ResolvedToken)

\* validate_token up to its request
ValidateToken ==
    /\ pc = "idle"
    /\ \E t \in {None, "", "arg-token"} : ValidateTokenCall(cli, t)
    /\ UNCHANGED <<token, env, results, response, pos, yielded, responses, sleeps>>

\* AuthResult taking 200 for a valid token as well
AuthResultOkToo(resp) ==
    IF resp.status_code \in {200, 204} THEN ReturnPair(TRUE, <<>>)
    ELSE IF resp.status_code \in {401, 403} THEN ReturnPair(FALSE, <<>>)
    ELSE RaiseBare("Exception")

\* validate_token after the response has arrived
AuthResult(resp) ==
    IF resp.status_code = 204 THEN ReturnPair(TRUE, <<>>)
    ELSE IF resp.status_code \in {401, 403} THEN ReturnPair(FALSE, <<>>)
    ELSE RaiseBare("Exception")

\* every answer the server may give to the auth probe
AuthResponses ==
    {Response(st, None, TextBody) : st \in OtherStatuses \cup {200, 204}}
    \cup {Response(429, h, TextBody) : h \in RetryAfterHeaders}

\* The answer to the auth probe arrives and validate_token returns or raises.
AuthResponse ==
    /\ pc = "await"
    /\ req.path = "/api/v2/auth/"
    /\ \E resp \in AuthResponses :
        LET r == AuthResult(resp)
        IN  /\ responses' = Append(responses, resp)
            /\ IF r.kind = "raise"
               THEN Finish(Propagated(r))
               ELSE Finish(ReturnedPair(r.ok, <<>>, <<>>))
    /\ UNCHANGED <<token, env, call, results, response, pos, yielded, sleeps>>

-----------------------------------------------------------------------------
(* The command-line interface: each command builds
   ReadwiseReader(token=os.getenv("READWISE_TOKEN")) and calls one method *)

\* the --html-file arguments of `readwise save`: none, a path that cannot be
\* read, a path that can
HtmlFileInputs == {None, "missing.html", "page.html"}
\* what open(html_file).read() gives, None standing for FileNotFoundError
FileContent(path) == IF path = "page.html" THEN "<p>" ELSE None

\* `readwise list`: --number outside 1..100 prints an error and exits 1 before
\* any call; otherwise get_documents(location, category, limit=n)
CliList ==
    /\ pc = "idle"
    /\ token = None
    /\ token' = env
    /\ \E l \in LocationInputs, c \in CategoryInputs, n \in LimitInputs :
        IF n # Nothing /\ ~(MinLimit <= n[1] /\ n[1] <= MaxLimit)
        THEN /\ pc' = "exited"
             /\ cli' = Exited(Running("list"), 1, TRUE, FALSE)
             /\ UNCHANGED <<call, req, requests, outcome>>
        ELSE GetDocumentsCall(Running("list"),
                              [NoCall EXCEPT !.op = "get_documents", !.location = l, !.category = c,
                                             !.limit = n])
    /\ UNCHANGED <<env, results, response, pos, yielded, responses, sleeps>>

\* `readwise get <id>`: get_document_by_id(id)
CliGet ==
    /\ pc = "idle"
    /\ token = None
    /\ token' = env
    /\ \E i \in IdInputs : GetDocumentByIdCall(Running("get"), i, FALSE)
    /\ UNCHANGED <<env, results, response, pos, yielded, responses, sleeps>>

\* `readwise save`: an unreadable --html-file, or neither --url nor
\* --html-file, prints an error and exits 1 before any call; otherwise
\* save_document(url, html=<the file's content>, title)
CliSave ==
    /\ pc = "idle"
    /\ token = None
    /\ token' = env
    /\ \E u \in {None} \cup UrlInputs, f \in HtmlFileInputs, t \in {None, "T"} :
        IF (Truthy(f) /\ FileContent(f) = None) \/ (~Truthy(u) /\ ~Truthy(f))
        THEN /\ pc' = "exited"
             /\ cli' = Exited(Running("save"), 1, TRUE, FALSE)
             /\ UNCHANGED <<call, req, requests, outcome>>
        ELSE SaveDocumentCall(Running("save"),
                              [NoCall EXCEPT !.op = "save_document", !.url = u,
                                             !.html = FileContent(f), !.title = t])
    /\ UNCHANGED <<env, results, response, pos, yielded, responses, sleeps>>

\* `readwise auth-check`: validate_token() with the token of the environment
CliAuthCheck ==
    /\ pc = "idle"
    /\ token = None
    /\ token' = env
    /\ ValidateTokenCall(Running("auth-check"), None)
    /\ UNCHANGED <<env, results, response, pos, yielded, responses, sleeps>>

Next ==
    \/ CliList
    \/ CliGet
    \/ CliSave
    \/ CliAuthCheck
    \/ GetDocuments
    \/ GetDocumentById
    \/ SearchDocument
    \/ IterDocuments
    \/ IterNext
    \/ IterClose
    \/ ListResponse
    \/ SaveDocument
    \/ SaveResponse
    \/ UpdateDocumentLocation
    \/ UpdateResponse
    \/ DeleteDocument
    \/ DeleteResponse
    \/ ValidateToken
    \/ AuthResponse

Spec == Init /\ [][Next]_vars

-----------------------------------------------------------------------------
(* Pagination without end.  The loops of get_documents (no limit) and of
   iter_documents run against a server that answers every request with a page
   and may hand out any cursor after any page, a repeated one included.  The
   loops are those of Spec; requests and responses keep only the latest
   exchange, so that a pagination that never ends is a cycle of states. *)

\* documents a listing accumulates at most: past it the server's pages are empty
MaxDocs == 2

\* the pages such a server may answer a list request with
LoopPages(params) ==
    {PageBody(n, cur, PageDocs(PageIndex(params.pageCursor), n)) :
        n \in 0..PageSize, cur \in {None, ""} \cup Cursors}

\* requests.get goes out; the exchange before it is forgotten
Exchange(r) ==
    LET sent == [r EXCEPT !.auth = ResolvedToken]
    IN  /\ pc' = "await"
        /\ req' = sent
        /\ requests' = <<sent>>
        /\ UNCHANGED <<outcome, cli>>

\* a reader built with a token
PagingInit == Init /\ token = "ctor-token" /\ env = None

\* get_documents without limit, with valid filters, up to its first request
PagingGetDocuments ==
    /\ pc = "idle"
    /\ \E f \in {g \in FilterInputs : g[4] = None}, r \in BOOLEAN :
        LET a == [NoCall EXCEPT !.op = "get_documents", !.location = f[1], !.category = f[2],
                                !.tag = f[3], !.retry_on_429 = r]
        IN  /\ FilterError(a) = "none"
            /\ call' = a
            /\ Exchange(ListRequest(GetDocumentsParams(a), a.retry_on_429))
    /\ UNCHANGED <<token, env, results, response, pos, yielded, responses, sleeps>>

\* iter_documents with valid filters: the generator is created
PagingIterDocuments ==
    /\ pc = "idle"
    /\ \E f \in {g \in FilterInputs : g[4] = None}, r \in BOOLEAN :
        LET a == [NoCall EXCEPT !.op = "iter_documents", !.location = f[1], !.category = f[2],
                                !.tag = f[3], !.retry_on_429 = r]
        IN  /\ FilterError(a) = "none"
            /\ call' = a
    /\ pc' = "created"
    /\ UNCHANGED <<token, env, req, results, response, pos, yielded, requests, responses, sleeps, outcome, cli>>

\* iter_documents once every document of page p has been yielded
PagingAdvance(p) ==
    IF ~Truthy(p.next_page_cursor)
    THEN Finish(Returned(yielded))
    ELSE Exchange(NextPageRequest(p))

\* A page arrives: get_documents appends it and requests the next page while
\* the page carries a cursor; iter_documents yields the page's first document,
\* or moves past an empty page.
PagingResponse ==
    /\ pc = "await"
    /\ \E resp \in {Response(200, None, b) : b \in LoopPages(req.params)} :
        LET p == MakeGetRequest(resp, req.retry_on_429).page
        IN  /\ Len(results) + Len(yielded) + Len(p.results) <= MaxDocs
            /\ responses' = <<resp>>
            /\ IF call.op = "get_documents"
               THEN LET step == PaginateStep(results, p)
                    IN  /\ results' = step.results
                        /\ IF step.more
                           THEN Exchange(NextPageRequest(p))
                           ELSE Finish(Returned(step.results))
                        /\ UNCHANGED <<response, pos, yielded>>
               ELSE /\ response' = p
                    /\ UNCHANGED results
                    /\ IF p.results # <<>>
                       THEN /\ pos' = 1
                            /\ yielded' = Append(yielded, p.results[1])
                            /\ pc' = "yielded"
                            /\ UNCHANGED <<req, requests, outcome, cli>>
                       ELSE /\ PagingAdvance(p)
                            /\ UNCHANGED <<pos, yielded>>
    /\ UNCHANGED <<token, env, call, sleeps>>

\* the consumer asks the generator for the next document, and never stops asking
PagingIterNext ==
    /\ pc \in {"created", "yielded"}
    /\ IF pc = "created"
       THEN /\ Exchange(ListRequest(FilterParams(call), call.retry_on_429))
            /\ UNCHANGED <<pos, yielded>>
       ELSE IF pos < Len(response.results)
       THEN /\ pos' = pos + 1
            /\ yielded' = Append(yielded, response.results[pos + 1])
            /\ UNCHANGED <<pc, req, requests, outcome, cli>>
       ELSE /\ PagingAdvance(response)
            /\ UNCHANGED <<pos, yielded>>
    /\ UNCHANGED <<token, env, call, results, response, responses, sleeps>>

PagingNext ==
    \/ PagingGetDocuments
    \/ PagingIterDocuments
    \/ PagingResponse
    \/ PagingIterNext

\* requests.get blocks for at most `timeout` seconds, so every request is
\* answered, and the consumer of a fully consumed generator keeps asking
PagingSpec ==
    /\ PagingInit
    /\ [][PagingNext]_vars
    /\ WF_vars(PagingResponse)
    /\ WF_vars(PagingIterNext)

----------------------------------------------------------------------------
(* Properties *)

\* the call has ended
Done == pc = "done"
\* the call has ended by returning a value
HasReturned == Done /\ outcome.kind = "return"
\* the answers received that were not 429
NotRateLimited(r) == r.status_code # 429
Served == SelectSeq(responses, NotRateLimited)
\* the documents of the pages served, page after page
ServedDocs == Concat([i \in 1..Len(Served) |-> Served[i].text.results])
NoDuplicates(seq) == \A i, j \in 1..Len(seq) : i # j => seq[i] # seq[j]
Paginating == call.op = "get_documents" /\ call.limit = Nothing

\* C1: get_documents without a limit returns exactly the concatenation of the
\* results of every page served, in page order and with the final cursor-less
\* page included; every page but the last carried a cursor; each page was
\* requested once (one request per page, plus one per 429 that was retried).
C1_AutoPagination ==
    (Paginating /\ HasReturned) =>
        /\ outcome.value = ServedDocs
        /\ NoDuplicates(outcome.value)
        /\ Len(requests) = Len(Served) + Len(sleeps)
        /\ \A i \in 1..Len(Served) :
              Truthy(Served[i].text.nextPageCursor) <=> i < Len(Served)

\* three pages, four documents, no rate limiting: three requests
C1_Witness ==
    /\ Paginating /\ HasReturned
    /\ sleeps = <<>>
    /\ Len(requests) = 3
    /\ outcome.value = <<Doc(0, 1), Doc(1, 1), Doc(1, 2), Doc(2, 1)>>

C3_LimitValidation ==
    (call.op = "get_documents" /\ call.limit # Nothing /\ call.limit[1] \notin 1..100) =>
        /\ Done
        /\ outcome.kind = "raise" /\ outcome.exc = "ValueError"
        /\ requests = <<>>

\* limit = 0 is rejected as a limit, with no request
C3_Witness ==
    /\ call.op = "get_documents" /\ call.limit = Some(0)
    /\ Done /\ outcome.exc = "ValueError" /\ outcome.msg = <<"limit">>
    /\ requests = <<>>

\* the requests answered so far
Answered == 1..Len(responses)
\* answer i is a 429
RateLimited(i) == responses[i].status_code = 429
\* answer i is a 429 carrying a wait duration: a Retry-After header holding a number
CarriesWait(i) == RateLimited(i) /\ Truthy(responses[i].retry_after)
\* the wait duration answer i carries
Wait(i) == ParseInt(responses[i].retry_after)
\* request i was issued again, unchanged, as request i + 1
Reissued(i) == Len(requests) > i /\ requests[i + 1] = requests[i]
\* answer i ended the call
Last(i) == Done /\ i = Len(responses)
\* the call raised a rate-limit error for answer i
RateLimitRaised(i) ==
    /\ Last(i) /\ outcome.kind = "raise"
    /\ outcome.exc = "ReadwiseRateLimitError"
    /\ outcome.status_code = Some(429)
    /\ outcome.retry_after = (IF CarriesWait(i) THEN Some(Wait(i)) ELSE Nothing)

\* C4 (as claimed): on a request made with retry enabled, every 429 that carries
\* a wait duration d is followed by a sleep of exactly d (the k-th such 429 by
\* the k-th sleep) and by the same request again, so that n such answers and a
\* success make n sleeps and n + 1 identical requests.
C4_RetryEveryWait ==
    \A i \in Answered :
        (requests[i].retry_on_429 /\ CarriesWait(i)) =>
            LET k == Cardinality({j \in 1..i : CarriesWait(j)})
            IN  /\ Len(sleeps) >= k /\ sleeps[k] = Wait(i)
                /\ Reissued(i)

\* retry enabled, Retry-After: 0, and the call has raised without sleeping
C4_Witness ==
    /\ call.op = "get_documents" /\ call.retry_on_429
    /\ Len(responses) = 1 /\ CarriesWait(1) /\ Wait(1) = 0
    /\ RateLimitRaised(1) /\ outcome.retry_after = Some(0)
    /\ sleeps = <<>> /\ Len(requests) = 1

\* C5: with retry disabled, a 429 answer to a request of get_documents,
\* iter_documents, get_document_by_id, search_document, save_document,
\* update_document_location or delete_document ends the call with
\* ReadwiseRateLimitError whose status_code is 429 and whose retry_after is the
\* Retry-After value (None when the header is absent); nothing was slept and no
\* request followed.
C5_NoRetryRaises ==
    \A i \in Answered :
        (~call.retry_on_429 /\ call.op # "validate_token" /\ RateLimited(i)) =>
            /\ RateLimitRaised(i)
            /\ sleeps = <<>>
            /\ Len(requests) = i

\* save_document without retry, answered 429 with Retry-After: 2
C5_Witness ==
    /\ call.op = "save_document" /\ ~call.retry_on_429
    /\ Len(responses) = 1 /\ RateLimited(1) /\ responses[1].retry_after = "2"
    /\ RateLimitRaised(1) /\ outcome.retry_after = Some(2)
    /\ sleeps = <<>> /\ Len(requests) = 1

\* C6 (as claimed): when the caller passed retry_on_429 = True, every request
\* made for the call that is answered 429 with a positive wait duration is
\* issued again; the call never surfaces that 429 as a failure.
C6_RetryEveryRequest ==
    \A i \in Answered :
        (call.retry_on_429 /\ CarriesWait(i) /\ Wait(i) > 0) =>
            /\ Reissued(i)
            /\ ~(Last(i) /\ outcome.kind = "raise")

\* delete_document(url, retry_on_429 = True): its search is answered 429 with
\* Retry-After: 1 and the call raises without sleeping or asking again
C6_Witness ==
    /\ call.op = "delete_document" /\ call.retry_on_429 /\ call.document_id = Nothing
    /\ Len(requests) = 1 /\ requests[1].path = "/list/" /\ ~requests[1].retry_on_429
    /\ Len(responses) = 1 /\ CarriesWait(1) /\ Wait(1) = 1
    /\ RateLimitRaised(1)
    /\ sleeps = <<>>

\* request i went to the list endpoint
ListAnswered(i) == requests[i].path = "/list/"
\* the call raised error `exc` for answer i, carrying its status and its raw body
HttpRaised(i, exc) ==
    /\ Last(i) /\ outcome.kind = "raise" /\ outcome.exc = exc
    /\ outcome.status_code = Some(responses[i].status_code)
    /\ outcome.response_body = responses[i].text
\* the body of answer i is a list page
IsPage(i) == responses[i].text.kind = "object" /\ responses[i].text.shape = "list"
\* `seq` ends with `tail`
EndsWith(seq, tail) ==
    /\ Len(seq) >= Len(tail)
    /\ \A j \in 1..Len(tail) : seq[Len(seq) - Len(tail) + j] = tail[j]
\* The body of answer i was decoded into a list page: a body that is no list
\* page ends the call with the decoder's exception (which carries no status);
\* a list page raises no HTTP error and its documents are what the caller goes
\* on with.
Decoded(i) ==
    IF ~IsPage(i)
    THEN /\ Last(i) /\ outcome.kind = "raise" /\ outcome.status_code = Nothing
         /\ outcome.exc \in {"JSONDecodeError", "TypeError", "ValidationError"}
    ELSE /\ (Last(i) /\ outcome.kind = "raise") => outcome.exc = "IndexError"
         /\ (Last(i) /\ call.op = "get_documents") =>
                HasReturned /\ EndsWith(outcome.value, responses[i].text.results)
         /\ (i = Len(responses) /\ call.op = "iter_documents") =>
                response.results = responses[i].text.results

\* C7: a list request answered with a status other than 429 raises
\* ReadwiseServerError for a status >= 500, ReadwiseAuthenticationError for 401
\* and 403, ReadwiseClientError for any other status >= 400, each carrying the
\* status and the raw body, whatever the body is; for a status in 200..299 the
\* body is decoded into a list page.
C7_StatusDispatch ==
    \A i \in Answered :
        (ListAnswered(i) /\ ~RateLimited(i)) =>
            LET status == responses[i].status_code
            IN  /\ status >= 500 => HttpRaised(i, "ReadwiseServerError")
                /\ status \in {401, 403} => HttpRaised(i, "ReadwiseAuthenticationError")
                /\ (status >= 400 /\ status < 500 /\ status \notin {401, 403}) =>
                       HttpRaised(i, "ReadwiseClientError")
                /\ status \in 200..299 => Decoded(i)

\* a 500 whose body is a well-formed list page still raises ReadwiseServerError
\* with status 500 and that body
C7_Witness ==
    /\ call.op = "get_documents"
    /\ Len(responses) = 1 /\ responses[1].status_code = 500 /\ IsPage(1)
    /\ HttpRaised(1, "ReadwiseServerError")
    /\ outcome.response_body.results = <<Doc(0, 1)>>

\* C8 (as claimed): a list request of get_documents, iter_documents,
\* search_document or get_document_by_id answered with a status outside
\* 200..299 ends the call with a raised error carrying that status; nothing is
\* decoded or returned.
C8_OnlySuccessDecoded ==
    \A i \in Answered :
        (/\ call.op \in {"get_documents", "iter_documents", "search_document", "get_document_by_id"}
         /\ responses[i].status_code \notin 200..299) =>
            /\ Last(i) /\ outcome.kind = "raise"
            /\ outcome.status_code = Some(responses[i].status_code)

\* get_documents(limit = 1) answered 300 with a list page: the page is returned
C8_Witness ==
    /\ call.op = "get_documents" /\ call.limit = Some(1)
    /\ Len(responses) = 1 /\ responses[1].status_code = 300 /\ IsPage(1)
    /\ HasReturned /\ outcome.value = <<Doc(0, 1)>>

\* get_document_by_id has ended on a decoded list page
ByIdDecoded ==
    /\ call.op = "get_document_by_id" /\ Done /\ responses # <<>>
    /\ responses[Len(responses)].status_code = 200 /\ IsPage(Len(responses))
\* the page get_document_by_id ended on
ByIdPage == responses[Len(responses)].text
\* get_document_by_id returned a document
ByIdFound == outcome.kind = "return" /\ outcome.value # <<>>
\* get_document_by_id returned None
ByIdAbsent == outcome.kind = "return" /\ outcome.value = <<>>

\* C9 (amended): get_document_by_id issues one list request filtered by the id
\* (again after each retried 429) and returns a document if and only if the
\* reported count is 1 and the page carries at least one result, and then the
\* first result; for count 0 and every count >= 2 it returns None whatever the
\* results are; for count 1 with no results it raises IndexError.
C9_ByIdCountOne ==
    /\ call.op = "get_document_by_id" =>
          \A i \in 1..Len(requests) :
              requests[i].method = "GET" /\ requests[i].path = "/list/"
              /\ requests[i].params = [NoParams EXCEPT !.id = call.id]
    /\ ByIdDecoded =>
          /\ Len(requests) = 1 + Len(sleeps)
          /\ ByIdFound <=> (ByIdPage.count = 1 /\ ByIdPage.results # <<>>)
          /\ ByIdFound => outcome.value = <<ByIdPage.results[1]>>
          /\ ByIdPage.count # 1 => ByIdAbsent
          /\ (ByIdPage.count = 1 /\ ByIdPage.results = <<>>) =>
                 outcome.kind = "raise" /\ outcome.exc = "IndexError"

\* count 2 with two results: None comes back
C9_Witness ==
    /\ ByIdDecoded /\ Len(requests) = 1
    /\ ByIdPage.count = 2 /\ Len(ByIdPage.results) = 2
    /\ ByIdAbsent

\* C9 (as claimed): get_document_by_id returns a document if and only if the
\* reported count is 1, and then the first result; otherwise None.
C9_Original ==
    ByIdDecoded =>
        /\ ByIdFound <=> ByIdPage.count = 1
        /\ ByIdPage.count # 1 => ByIdAbsent

\* the answer save_document ended on
SaveAnswer == responses[Len(responses)]
\* the body of the answer decodes into a PostResponse
IsSaveResult(body) == body.kind = "object" /\ body.shape = "post"

\* C10 (as claimed): once save_document has ended on an answer other than a 429,
\* it has returned a pair, never raised: (True, PostResponse) exactly for status
\* 200 or 201 with a body that decodes, (False, None) for every other status
\* and for a 200 / 201 body that does not decode.
C10_SavePair ==
    (call.op = "save_document" /\ Done /\ responses # <<>> /\ SaveAnswer.status_code # 429) =>
        /\ outcome.kind = "return"
        /\ outcome.ok <=> (SaveAnswer.status_code \in {200, 201} /\ IsSaveResult(SaveAnswer.text))
        /\ outcome.ok => outcome.value = <<[id |-> SaveAnswer.text.id[1], url |-> SaveAnswer.text.url]>>
        /\ ~outcome.ok => outcome.value = <<>>

\* save_document answered 200 with a JSON array: TypeError reaches the caller
C10_Witness ==
    /\ call.op = "save_document" /\ Done
    /\ Len(responses) = 1 /\ SaveAnswer.status_code = 200 /\ SaveAnswer.text.kind = "array"
    /\ outcome.kind = "raise" /\ outcome.exc = "TypeError"

\* request i went to the save, update or delete endpoint
MutationAnswered(i) == requests[i].path \in {"/save/", "/update/", "/delete/"}
\* the call returned a failure pair for answer i: (False, None) from save and
\* delete, (False, UpdateResponse(success = False, ...)) naming the status from update
FailurePair(i) ==
    /\ Last(i) /\ outcome.kind = "return" /\ ~outcome.ok
    /\ outcome.value =
          (IF requests[i].path = "/update/"
           THEN <<UpdateResult(FALSE, "Update failed", Some(responses[i].status_code))>>
           ELSE <<>>)

Saving == call.op = "save_document"
\* the call raised ValueError and issued no request
RejectedUnsent == Done /\ outcome.kind = "raise" /\ outcome.exc = "ValueError" /\ requests = <<>>

\* C12: save_document called with neither url nor html (each None or empty), or
\* with should_clean_html = True and no html, raises ValueError and has issued
\* no request.
C12_SaveValidation ==
    Saving =>
        /\ (~Truthy(call.url) /\ ~Truthy(call.html)) => RejectedUnsent
        /\ (call.should_clean_html /\ ~Truthy(call.html)) => RejectedUnsent

\* a url, should_clean_html = True and no html: rejected for should_clean_html
C12_Witness ==
    /\ Saving /\ Truthy(call.url) /\ call.html = None /\ call.should_clean_html
    /\ RejectedUnsent /\ outcome.msg = <<"should_clean_html">>

\* save_document was given both a url and html content
BothGiven == Saving /\ Truthy(call.url) /\ Truthy(call.html)

\* C13 (amended): save_document requires at least one of url and html: with
\* neither it raises ValueError and issues no request; with both a url and
\* html (no location or category to reject, a token configured) it passes
\* validation and its first request is the save request carrying both.
C13_AtLeastOne ==
    /\ (Saving /\ ~Truthy(call.url) /\ ~Truthy(call.html)) => RejectedUnsent
    /\ (BothGiven /\ call.location = None /\ call.category = None /\ TokenError = "none") =>
          /\ requests # <<>>
          /\ requests[1].method = "POST" /\ requests[1].path = "/save/"
          /\ requests[1].json.url = call.url /\ requests[1].json.html = call.html

\* both given and answered 200 with a save result: (True, PostResponse)
C13_Witness ==
    /\ BothGiven /\ Len(requests) = 1 /\ requests[1].json.html = "<p>"
    /\ HasReturned /\ outcome.ok /\ outcome.value # <<>>

\* C13 (as claimed): save_document given both a url and html raises a
\* validation error and issues no request.
C13_Original == BothGiven => RejectedUnsent

\* save_document was given html content and no url
HtmlOnly == Saving /\ call.url = None /\ Truthy(call.html)

\* C14 (as claimed): save_document given html and no url (nothing else to
\* reject, a token configured) passes validation and issues the save request
\* carrying the html with url null, one request unless a 429 is retried; a 200
\* answer with a decodable body makes it return (True, PostResponse).
C14_HtmlOnlySaves ==
    (HtmlOnly /\ call.location = None /\ call.category = None /\ TokenError = "none") =>
        /\ requests # <<>>
        /\ requests[1].path = "/save/"
        /\ requests[1].json.html = call.html /\ requests[1].json.url = None
        /\ Len(requests) = 1 + Len(sleeps)
        /\ (Done /\ SaveAnswer.status_code = 200 /\ IsSaveResult(SaveAnswer.text)) =>
               outcome.kind = "return" /\ outcome.ok

\* html only: the call has raised the record's ValidationError with no request issued
C14_Witness ==
    /\ HtmlOnly /\ call.location = None /\ call.category = None /\ TokenError = "none"
    /\ Done /\ outcome.kind = "raise" /\ outcome.exc = "ValidationError"
    /\ outcome.msg = <<"url">> /\ requests = <<>>

\* save_document was called with arguments that pass its url / html checks
SaveChecksValues == Saving /\ Truthy(call.url) /\ ~(call.should_clean_html /\ ~Truthy(call.html))
\* save_document raised ValueError about parameter `what`, with no request issued
SaveRejects(what) == RejectedUnsent /\ outcome.msg = <<what>>

\* C15 (amended): save_document rejects a category exactly when get_documents
\* rejects it, and rejects every location get_documents rejects; the one value
\* they differ on is shortlist, which get_documents accepts and save_document
\* rejects: the save locations are new, later, archive and feed.
C15_SaveValueSets ==
    SaveChecksValues =>
        /\ SaveRejects("location") <=>
              (Truthy(call.location) /\ call.location \notin {"new", "later", "archive", "feed"})
        /\ FilterError(call) = "location" => SaveRejects("location")
        /\ (SaveRejects("location") /\ FilterError(call) # "location") <=> call.location = "shortlist"
        /\ call.location = None => (SaveRejects("category") <=> FilterError(call) = "category")

\* location = shortlist, which get_documents takes, is rejected by save_document
C15_Witness ==
    /\ SaveChecksValues /\ call.location = "shortlist"
    /\ FilterError(call) = "none"
    /\ SaveRejects("location")

\* C15 (as claimed): save_document rejects a location exactly when
\* get_documents rejects it.
C15_Original ==
    SaveChecksValues => (SaveRejects("location") <=> FilterError(call) = "location")

\* the body of the save request
SaveBody == requests[1].json

\* C16 (as claimed): every metadata argument given to save_document (title,
\* location, category, notes) is in the body of the save request with the value given.
C16_MetadataSent ==
    (Saving /\ requests # <<>>) =>
        /\ call.title # None => SaveBody.title = call.title
        /\ call.location # None => SaveBody.location = call.location
        /\ call.category # None => SaveBody.category = call.category
        /\ call.notes # None => SaveBody.notes = call.notes

\* category = article was given and accepted; the save request has no category
C16_Witness ==
    /\ Saving /\ call.category = "article"
    /\ Len(requests) = 1 /\ SaveBody.url = call.url
    /\ SaveBody.category = None

\* delete_document was called with a url and no document_id
DeletingByUrl == call.op = "delete_document" /\ call.document_id = Nothing /\ call.url # None
\* the search of delete_document was answered 200 with a list page
SearchDecoded == Len(responses) >= 1 /\ responses[1].status_code = 200 /\ IsPage(1)
\* the page the search was answered with
SearchPage == responses[1].text

\* C17: delete_document given only a url first issues the list request filtered
\* by that url, and every later request is a DELETE.  When the search reports
\* count 0 the call returns (False, error naming the url) and no DELETE is
\* issued; a DELETE is issued only after a search that reported a match; when
\* the search reports a match, the DELETE follows, addressed to the id of the
\* first result (one DELETE, plus one per 429 that was retried).
C17_DeleteByUrl ==
    DeletingByUrl =>
        /\ requests # <<>> =>
              /\ requests[1].method = "GET" /\ requests[1].path = "/list/"
              /\ requests[1].params = [NoParams EXCEPT !.url = call.url]
        /\ \A i \in 2..Len(requests) : requests[i].method = "DELETE" /\ requests[i].path = "/delete/"
        /\ Len(requests) >= 2 => (Len(responses) >= 1 /\ ~RateLimited(1) /\ SearchPage.count > 0)
        /\ (SearchDecoded /\ SearchPage.count = 0) =>
              /\ Last(1) /\ Len(requests) = 1
              /\ outcome = ReturnedPair(FALSE, <<"Could not find document with URL", call.url>>, <<>>)
        /\ (SearchDecoded /\ SearchPage.count > 0 /\ SearchPage.results # <<>>) =>
              /\ Len(requests) = 2 + Len(sleeps)
              /\ \A i \in 2..Len(requests) :
                    /\ requests[i].target = Some(SearchPage.results[1].id)
                    /\ requests[i].json.id = Some(SearchPage.results[1].id)

\* the search found two documents; one DELETE went to the first and succeeded
C17_Witness ==
    /\ DeletingByUrl /\ SearchDecoded /\ Len(SearchPage.results) = 2
    /\ Len(requests) = 2 /\ requests[2].target = Some(Doc(0, 1).id)
    /\ HasReturned /\ outcome.ok

\* request i was a DELETE
DeleteAnswered(i) == requests[i].path = "/delete/"
\* the body of answer i decodes into a DeleteResponse
IsDeleteResult(i) == responses[i].text.kind = "object" /\ responses[i].text.shape = "delete"

\* C18 (as claimed): a DELETE request answered with a status other than 429 ends
\* the call with a returned pair: (True, DeleteResponse(success = True)) for 204
\* whatever the body, (True, decoded DeleteResponse) for 200 with a body that
\* decodes, and (False, None) for 200 with any other body and for every other status.
C18_DeleteStatuses ==
    \A i \in Answered :
        (DeleteAnswered(i) /\ ~RateLimited(i)) =>
            /\ Last(i) /\ outcome.kind = "return"
            /\ outcome.ok <=> \/ responses[i].status_code = 204
                              \/ responses[i].status_code = 200 /\ IsDeleteResult(i)
            /\ responses[i].status_code = 204 =>
                   outcome.value = <<DeleteResult(TRUE, "Document deleted successfully")>>
            /\ (responses[i].status_code = 200 /\ IsDeleteResult(i)) =>
                   outcome.value = <<DeleteResult(responses[i].text.success, "")>>
            /\ ~outcome.ok => outcome.value = <<>>

\* a DELETE answered 200 with a JSON array: TypeError reaches the caller
C18_Witness ==
    /\ call.op = "delete_document" /\ call.document_id # Nothing
    /\ Len(responses) = 1 /\ DeleteAnswered(1)
    /\ responses[1].status_code = 200 /\ responses[1].text.kind = "array"
    /\ Done /\ outcome.kind = "raise" /\ outcome.exc = "TypeError"

\* update_document_location was called
Updating == call.op = "update_document_location"

\* C19: update_document_location called with a location outside new, later,
\* archive returns (False, error naming the location) at once, with no request
\* issued, whether or not a token is configured; called with one of the three
\* (and a token) it issues the PATCH request for the given id carrying that
\* location, once (and once more per 429 that is retried), and nothing else.
C19_UpdateValidation ==
    Updating =>
        /\ call.location \notin {"new", "later", "archive"} =>
              /\ Done /\ requests = <<>>
              /\ outcome = ReturnedPair(FALSE, <<"Invalid location", call.location>>, <<>>)
        /\ (call.location \in {"new", "later", "archive"} /\ TokenError = "none") =>
              /\ requests # <<>>
              /\ Len(requests) = 1 + Len(sleeps)
              /\ \A i \in 1..Len(requests) :
                    /\ requests[i].method = "PATCH" /\ requests[i].path = "/update/"
                    /\ requests[i].target = call.document_id
                    /\ requests[i].json = [NoJson EXCEPT !.location = call.location]

\* no token anywhere, location = feed: the error pair comes back, nothing raised
C19_Witness ==
    /\ Updating /\ call.location = "feed"
    /\ token = None /\ env = None
    /\ HasReturned /\ ~outcome.ok /\ outcome.msg = <<"Invalid location", "feed">>
    /\ requests = <<>>

\* search_document has ended on a decoded list page
SearchEnded ==
    /\ call.op = "search_document" /\ Done /\ responses # <<>>
    /\ responses[Len(responses)].status_code = 200 /\ IsPage(Len(responses))
\* the page search_document ended on
FoundPage == responses[Len(responses)].text
\* search_document returned (True, document)
SearchFound == outcome.kind = "return" /\ outcome.ok

\* C20 (amended): search_document issues one list request filtered by the url
\* (again after each retried 429) and returns (True, first result) if and only
\* if the reported count is greater than zero and the page carries at least one
\* result; for count 0 it returns (False, error naming the url); for a count
\* greater than zero with no results it raises IndexError.
C20_SearchByUrl ==
    /\ call.op = "search_document" =>
          \A i \in 1..Len(requests) :
              requests[i].method = "GET" /\ requests[i].path = "/list/"
              /\ requests[i].params = [NoParams EXCEPT !.url = call.url]
    /\ SearchEnded =>
          /\ Len(requests) = 1 + Len(sleeps)
          /\ SearchFound <=> (FoundPage.count > 0 /\ FoundPage.results # <<>>)
          /\ SearchFound => outcome.value = <<FoundPage.results[1]>>
          /\ FoundPage.count = 0 =>
                 outcome = ReturnedPair(FALSE, <<"No document found with URL", call.url>>, <<>>)
          /\ (FoundPage.count > 0 /\ FoundPage.results = <<>>) =>
                 outcome.kind = "raise" /\ outcome.exc = "IndexError"

\* count 2 and two results: (True, first result)
C20_Witness ==
    /\ SearchEnded /\ Len(requests) = 1
    /\ FoundPage.count = 2 /\ Len(FoundPage.results) = 2
    /\ SearchFound /\ outcome.value = <<Doc(0, 1)>>

\* C20 (as claimed): search_document returns (True, first result) if and only
\* if the reported count is greater than zero.
C20_Original == SearchEnded => (SearchFound <=> FoundPage.count > 0)

\* validate_token was called
Validating == call.op = "validate_token"

\* C21: validate_token issues at most one request, a GET to the auth endpoint,
\* and its answer ends the call: True is returned if and only if the status is
\* 204, False if and only if it is 401 or 403, and every other status (429
\* included) raises Exception; no request is ever repeated.
C21_ValidateToken ==
    Validating =>
        /\ Len(requests) <= 1 /\ sleeps = <<>>
        /\ requests # <<>> => requests[1].method = "GET" /\ requests[1].path = "/api/v2/auth/"
        /\ responses # <<>> =>
              LET status == responses[1].status_code
              IN  /\ Done /\ Len(requests) = 1
                  /\ (outcome.kind = "return" /\ outcome.ok) <=> status = 204
                  /\ (outcome.kind = "return" /\ ~outcome.ok) <=> status \in {401, 403}
                  /\ status \notin {204, 401, 403} =>
                         outcome.kind = "raise" /\ outcome.exc = "Exception"

\* answered 200: neither True nor False, Exception is raised
C21_Witness ==
    /\ Validating /\ Len(requests) = 1 /\ Len(responses) = 1
    /\ responses[1].status_code = 200
    /\ Done /\ outcome.kind = "raise" /\ outcome.exc = "Exception"

\* validate_token was given a token of its own
OwnToken == Validating /\ Truthy(call.token)
\* the token a request of the call must carry
ExpectedToken == IF OwnToken THEN call.token ELSE IF token # None THEN token ELSE env
\* the call ended with the configuration error of a missing token
TokenMissing == Done /\ outcome = Raised("ValueError", "token")

Iterating == call.op = "iter_documents"
\* the documents of the first k pages served
DocsThrough(k) == Concat([i \in 1..k |-> Served[i].text.results])
\* the pages asked for so far: the requests that were not reissues after a 429
PagesRequested == Len(requests) - Len(sleeps)

\* C23: iter_documents yields the documents of the pages served, in page order
\* and in each page's order (what get_documents returns for the same pages, a
\* prefix of it while the generator runs); nothing is requested before the
\* first next(); page k + 1 is requested only once every document of pages 1..k
\* has been yielded; a page is requested only after pages that carried a
\* cursor; and the generator ends exactly with everything yielded and the last
\* page cursor-less.
C23_IterLazy ==
    Iterating =>
        /\ Len(yielded) <= Len(ServedDocs)
        /\ yielded = SubSeq(ServedDocs, 1, Len(yielded))
        /\ pc = "created" => requests = <<>>
        /\ \A k \in 1..Len(Served) : PagesRequested > k => Len(yielded) >= Len(DocsThrough(k))
        /\ \A k \in 1..(Len(Served) - 1) : Truthy(Served[k].text.nextPageCursor)
        /\ HasReturned =>
              /\ yielded = ServedDocs /\ outcome.value = yielded
              /\ ~Truthy(Served[Len(Served)].text.nextPageCursor)

\* the consumer stopped inside the first of two-document pages: one request
\* was made although the page carried a cursor
C23_Witness ==
    /\ Iterating /\ Done /\ outcome.kind = "closed"
    /\ Len(Served) = 1 /\ Len(Served[1].text.results) = 2 /\ Truthy(Served[1].text.nextPageCursor)
    /\ yielded = <<Doc(0, 1)>>
    /\ Len(requests) = 1

\* C24: in get_documents and iter_documents every request after the first is
\* either the reissue, unchanged, of a request answered 429, or the first
\* request with its pageCursor replaced by the nextPageCursor of the page just
\* received, every other parameter (and the rest of the request) as in the first.
C24_CursorVerbatim ==
    call.op \in {"get_documents", "iter_documents"} =>
        \A i \in 2..Len(requests) :
            IF RateLimited(i - 1)
            THEN requests[i] = requests[i - 1]
            ELSE /\ Truthy(responses[i - 1].text.nextPageCursor)
                 /\ requests[i] =
                       [requests[1] EXCEPT !.params.pageCursor = responses[i - 1].text.nextPageCursor]

\* get_documents(tag = t): the second request carries cursor c1 and still the tag
C24_Witness ==
    /\ call.op = "get_documents" /\ call.tag = "t"
    /\ Len(requests) = 2 /\ ~RateLimited(1)
    /\ requests[1].params.pageCursor = None /\ requests[1].params.tag = "t"
    /\ requests[2].params.pageCursor = "c1" /\ requests[2].params.tag = "t"

\* the nine categories
NineCategories == {"article", "email", "rss", "highlight", "note", "pdf", "epub", "tweet", "video"}
\* the call was given a (non-empty) category outside the nine
BadCategory == Truthy(call.category) /\ call.category \notin NineCategories
\* the call was given a (non-empty) location outside `allowed`
BadLocation(allowed) == Truthy(call.location) /\ call.location \notin allowed

\* C25: a call whose arguments fail validation issues no request at all:
\* get_documents with a location outside new, later, shortlist, archive, feed or
\* a category outside the nine raises ValueError; iter_documents with the same
\* raises it at the first next(); save_document with a location outside new,
\* later, archive, feed or a category outside the nine raises ValueError;
\* delete_document with neither url nor document_id returns (False, error).
C25_ValidationOffline ==
    /\ (call.op = "get_documents"
        /\ (BadLocation({"new", "later", "shortlist", "archive", "feed"}) \/ BadCategory)) =>
          RejectedUnsent
    /\ (Iterating /\ (BadLocation({"new", "later", "shortlist", "archive", "feed"}) \/ BadCategory)) =>
          /\ requests = <<>>
          /\ pc \in {"created", "done"}
          /\ Done => (RejectedUnsent \/ outcome.kind = "closed")
    /\ (Saving /\ (BadLocation({"new", "later", "archive", "feed"}) \/ BadCategory)) =>
          RejectedUnsent
    /\ (call.op = "delete_document" /\ call.url = None /\ call.document_id = Nothing) =>
          /\ Done /\ requests = <<>>
          /\ outcome = ReturnedPair(FALSE, <<"Either url or document_id must be provided">>, <<>>)

\* iter_documents(category = book): the first next() raised ValueError, no request
C25_Witness ==
    /\ Iterating /\ call.category = "book"
    /\ RejectedUnsent /\ outcome.msg = <<"category">>

\* a command-line run has ended
CliExited == cli.cmd # "none" /\ cli.exit # Nothing
\* the run ended in one of the failures of the command line: the command or the
\* client rejected the arguments, no token was configured, the server refused
\* the token, or save / auth-check got a negative answer from the client
CliFailure ==
    \/ pc = "exited"
    \/ Done /\ outcome.kind = "raise"
            /\ outcome.exc \in {"ValueError", "ValidationError", "ReadwiseAuthenticationError"}
    \/ Done /\ outcome.kind = "return" /\ cli.cmd \in {"save", "auth-check"} /\ ~outcome.ok
\* the operation of the run succeeded
CliSucceeded == HasReturned /\ (cli.cmd \in {"save", "auth-check"} => outcome.ok)

\* C26 (as claimed; refuted): every run of list, get, save or auth-check that
\* ends in a failure has printed a one-line diagnostic and exited with a
\* non-zero code without an unhandled exception, and a run exits with code 0
\* only when its operation succeeded.
C26_CliExitCodes ==
    CliExited =>
        /\ CliFailure => cli.exit # Some(0) /\ cli.diagnostic /\ ~cli.unhandled
        /\ cli.exit = Some(0) => CliSucceeded

\* `readwise save --url ...` answered 401: the client returns (False, None), the
\* command prints "Failed to save document" and ends with exit code 0
C26_Witness ==
    /\ cli.cmd = "save" /\ cli.exit = Some(0) /\ cli.diagnostic
    /\ Len(responses) = 1 /\ responses[1].status_code = 401
    /\ outcome = ReturnedPair(FALSE, <<>>, <<>>)

\* the latest answer is a page without a (truthy) continuation cursor
CursorlessPage == responses # <<>> /\ ~Truthy(responses[Len(responses)].text.nextPageCursor)

\* C27: auto-pagination (get_documents without limit) and a fully consumed
\* iter_documents end only after a page without a (truthy) continuation cursor,
\* and once such a page has arrived they do end; nothing else stops them, so
\* while the server hands out a cursor with every page, a repeated one included,
\* the call never returns.
C27_Termination ==
    /\ [](Done => CursorlessPage)
    /\ CursorlessPage ~> Done
    /\ [](responses # <<>> => ~CursorlessPage) => [](~Done)

\* the server handed back the cursor it was asked for, twice over, and the
\* client requests that same page again
C27_Witness ==
    /\ call.op = "get_documents" /\ pc = "await"
    /\ req.params.pageCursor = CursorTok[1]
    /\ responses # <<>> /\ responses[1].text.nextPageCursor = CursorTok[1]
    /\ Len(results) = MaxDocs

\* answer i is a 429 to a request made with retry enabled
RetryEnabled(i) == RateLimited(i) /\ requests[i].retry_on_429
\* answer i is a 429 with a positive wait duration
PositiveWait(i) == CarriesWait(i) /\ Wait(i) > 0

\* C28: a 429 answer to a request made with retry enabled whose wait duration
\* is missing (no Retry-After header, or an empty one) or zero ends the call
\* with ReadwiseRateLimitError, retry_after None or 0: no sleep is made for it
\* and no request follows.  A request is issued again only after a 429,
\* answered to a request with retry enabled, that carries a positive wait; the
\* sleeps made are those of such answers.
C28_NoWaitNoRetry ==
    /\ \A i \in Answered :
        /\ (RetryEnabled(i) /\ ~PositiveWait(i)) =>
              /\ RateLimitRaised(i)
              /\ outcome.retry_after \in {Nothing, Some(0)}
              /\ Len(requests) = i
        /\ Reissued(i) => RetryEnabled(i) /\ PositiveWait(i)
    /\ Len(sleeps) = Cardinality({i \in Answered : RetryEnabled(i) /\ PositiveWait(i)})

\* update_document_location with retry: a 429 with Retry-After: 1 is slept on
\* and retried, then a 429 with Retry-After: 0 ends the call
C28_Witness ==
    /\ call.op = "update_document_location" /\ call.retry_on_429
    /\ Len(responses) = 2 /\ PositiveWait(1) /\ RetryEnabled(2)
    /\ responses[2].retry_after = "0"
    /\ RateLimitRaised(2) /\ outcome.retry_after = Some(0)
    /\ sleeps = <<1>> /\ Len(requests) = 2

\* some answer of the call was a 429
SomeRateLimited == \E i \in Answered : RateLimited(i)

\* C29: in get_documents without a limit, a request answered 429 and retried is
\* issued again unchanged (same cursor), and every other request after the
\* first asks for the cursor of the page just served; a list that is returned
\* is the concatenation, in order, of the pages served, no document twice,
\* however many 429 answers came in between.  With retry disabled, a 429 on any
\* page ends the call with ReadwiseRateLimitError: nothing is returned, the
\* pages already fetched included.
C29_RateLimitedPagination ==
    Paginating =>
        /\ \A i \in 2..Len(requests) :
              IF RateLimited(i - 1)
              THEN call.retry_on_429 /\ requests[i] = requests[i - 1]
              ELSE requests[i].params.pageCursor = responses[i - 1].text.nextPageCursor
        /\ HasReturned =>
              /\ outcome.value = ServedDocs
              /\ NoDuplicates(outcome.value)
              /\ Len(Served) = Len(requests) - Len(sleeps)
              /\ SomeRateLimited => call.retry_on_429
        /\ (~call.retry_on_429 /\ SomeRateLimited) =>
              /\ RateLimitRaised(Len(responses))
              /\ outcome.value = <<>>
              /\ sleeps = <<>>

\* page 1 is answered 429 with Retry-After: 1 first, then served: the list holds
\* page 0 and page 1, each once
C29_Witness ==
    /\ Paginating /\ call.retry_on_429 /\ HasReturned
    /\ Len(responses) = 3 /\ ~RateLimited(1) /\ PositiveWait(2) /\ ~RateLimited(3)
    /\ requests[2].params.pageCursor = CursorTok[1] /\ requests[3] = requests[2]
    /\ outcome.value = <<Doc(0, 1), Doc(0, 2), Doc(1, 1)>>

\* the call returned a pair whose second element is an UpdateResponse / DeleteResponse
TypedPair ==
    /\ call.op \in {"update_document_location", "delete_document"}
    /\ HasReturned /\ outcome.value # <<>>
\* the status of the answer that ended the call
LastStatus == responses[Len(responses)].status_code

\* C30 (as claimed; refuted): whenever update_document_location or
\* delete_document returns (flag, result) with a typed result, flag equals
\* result.success; update_document_location answered with a status other than
\* 429 returns flag true exactly when the status is 200, and for every other
\* status (False, result) with success false and a message naming the status.
C30_FlagIsSuccess ==
    /\ TypedPair => outcome.ok = outcome.value[1].success
    /\ (call.op = "update_document_location" /\ Done /\ responses # <<>> /\ LastStatus # 429) =>
          /\ TypedPair
          /\ outcome.ok <=> LastStatus = 200
          /\ LastStatus # 200 => outcome.value = <<UpdateResult(FALSE, "Update failed", Some(LastStatus))>>

\* delete_document(document_id) answered 200 {"success": false}: the pair is
\* (True, DeleteResponse(success=False))
C30_Witness ==
    /\ call.op = "delete_document" /\ TypedPair
    /\ LastStatus = 200 /\ responses[Len(responses)].text = DeleteBody(FALSE)
    /\ outcome.ok /\ ~outcome.value[1].success

====
